---- MODULE Spec2Model ----
(***************************************************************************)
(* Model of process_annotations.simplify_annotations_data: the annotation  *)
(* index, the text aggregator, the removal of consumed children, the       *)
(* bounding-box normaliser and the column-aware reading-order sort.        *)
(*                                                                         *)
(* Representation choices:                                                 *)
(*  - a text is a sequence of one-character strings; the empty text is <<>>*)
(*  - an optional key of a dict is a flag (has, hasValue, hasCid, hasText) *)
(*    next to the value                                                    *)
(*  - relationships is the set of its keys plus the child list             *)
(*  - a float is the exact fraction [num, den]; the x-centres are halves   *)
(*    of integers and the running centres are means of those, far above    *)
(*    the resolution of a double at page-coordinate magnitudes             *)
(*  - a normalised coordinate is given in quarters (NormDen), which a      *)
(*    double represents exactly                                            *)
(*  - annotation_map holds positions in data.annotations: the code's map   *)
(*    holds references to the very dicts that the loop mutates             *)
(***************************************************************************)
EXTENDS Integers, Sequences, FiniteSets, TLC

VARIABLES page, data, pc, annotation_map, child_ids_to_remove,
          processed_count, i, items, column_threshold, columns, k, returned

vars == <<page, data, pc, annotation_map, child_ids_to_remove,
          processed_count, i, items, column_threshold, columns, k, returned>>

\* ---------------------------------------------------------------- bounds
MaxChild == 2
MaxNest == 3
MaxBoxes == 3
MaxRuns == 2

\* ------------------------------------------------------ program constants
DefaultPageSize == 1000
Sentinel == 999999
ThresholdFloor == 60
ThresholdPct == 8
PctDen == 100
NormDen == 4

\* ---------------------------------------------------------------- helpers
Range(s) == {s[j] : j \in 1..Len(s)}

Max(a, b) == IF a >= b THEN a ELSE b

Abs(a) == IF a >= 0 THEN a ELSE 0 - a

RECURSIVE SumNum(_)
SumNum(s) == IF s = <<>> THEN 0 ELSE Head(s).cx.num + SumNum(Tail(s))

RECURSIVE Flatten(_)
Flatten(ss) == IF ss = <<>> THEN <<>> ELSE Head(ss) \o Flatten(Tail(ss))

FracLess(a, b) == a.num * b.den < b.num * a.den

Pairs(s) == (1..Len(s)) \X (1..Len(s))

\* list.sort: a stable sort, given by its contract; less holds the pairs
\* <<m, j>> of positions with key(s[m]) < key(s[j])
StableSort(s, less) ==
    LET n == Len(s)
        pos(j) == 1 + Cardinality({m \in 1..n :
                        \/ <<m, j>> \in less
                        \/ (<<j, m>> \notin less /\ m < j)})
    IN [p \in 1..n |-> s[CHOOSE j \in 1..n : pos(j) = p]]

\* ------------------------------------------------------------ the records
NoRel == [has |-> FALSE, keys |-> {}, child |-> <<>>]

ChildRel(child_ids, other) ==
    [has |-> TRUE,
     keys |-> {"child"} \cup (IF other THEN {"layout_link"} ELSE {}),
     child |-> child_ids]

NoBox == [has |-> FALSE, ulx |-> 0, uly |-> 0, lrx |-> 0, lry |-> 0,
          absolute_coords |-> TRUE]

AbsBox(x1, y1, x2, y2) ==
    [has |-> TRUE, ulx |-> x1, uly |-> y1, lrx |-> x2, lry |-> y2,
     absolute_coords |-> TRUE]

NormBox(x1, y1, x2, y2) ==
    [has |-> TRUE, ulx |-> x1, uly |-> y1, lrx |-> x2, lry |-> y2,
     absolute_coords |-> FALSE]

NoPageBox == [has |-> FALSE, ulx |-> 0, uly |-> 0, lrx |-> 0, lry |-> 0]

PageBox(w) == [has |-> TRUE, ulx |-> 0, uly |-> 0, lrx |-> w, lry |-> 1000]

SubValue(name, v) ==
    [name |-> name, hasValue |-> TRUE, value |-> v,
     hasCid |-> FALSE, category_id |-> 0]

SubRank(r) ==
    [name |-> "reading_order", hasValue |-> FALSE, value |-> <<>>,
     hasCid |-> TRUE, category_id |-> r]

Content(cat, subs, hasValue, value) ==
    [category_name |-> cat, sub_categories |-> subs,
     hasValue |-> hasValue, value |-> value]

Ann(id, c, rel, box) ==
    [annotation_id |-> id, category_name |-> c.category_name,
     sub_categories |-> c.sub_categories,
     hasValue |-> c.hasValue, value |-> c.value,
     relationships |-> rel, bounding_box |-> box,
     hasText |-> FALSE, text |-> <<>>]

\* ------------------------------------------------- the pure functions
extract_word_text(word_annotation) ==
    LET subs == word_annotation.sub_categories
        withValue == {j \in 1..Len(subs) : subs[j].hasValue}
    IN IF withValue # {}
       THEN subs[CHOOSE j \in withValue : \A m \in withValue : j <= m].value
       ELSE IF word_annotation.hasValue THEN word_annotation.value
       ELSE <<>>

extract_reading_order(word_annotation) ==
    LET subs == word_annotation.sub_categories
        ro == {j \in 1..Len(subs) : subs[j].name = "reading_order"}
    IN IF ro # {} /\ subs[CHOOSE j \in ro : TRUE].hasCid
       THEN subs[CHOOSE j \in ro : TRUE].category_id
       ELSE Sentinel

BuildIndex(anns) ==
    [id \in {anns[j].annotation_id : j \in 1..Len(anns)} |->
        CHOOSE j \in 1..Len(anns) :
            /\ anns[j].annotation_id = id
            /\ \A m \in 1..Len(anns) : anns[m].annotation_id = id => m <= j]

\* lines 32-44: the (text, reading_order) pairs of the resolved word
\* children with a non-empty text, in child-list order
WordData(child_ids, anns, amap) ==
    LET resolved == SelectSeq(child_ids, LAMBDA c : c \in DOMAIN amap)
        words == SelectSeq(resolved, LAMBDA c :
                    /\ anns[amap[c]].category_name = "word"
                    /\ extract_word_text(anns[amap[c]]) # <<>>)
    IN [j \in 1..Len(words) |->
          [text |-> extract_word_text(anns[amap[words[j]]]),
           reading_order |-> extract_reading_order(anns[amap[words[j]]])]]

\* mutant: the sort descends (reverse=True)
ReadingOrderGreater(a, b) == a.reading_order > b.reading_order

ReadingOrderLess(a, b) == a.reading_order < b.reading_order

SortWordData(word_data) ==
    StableSort(word_data,
               {q \in Pairs(word_data) :
                   ReadingOrderLess(word_data[q[1]], word_data[q[2]])})

RECURSIVE JoinTexts(_)
JoinTexts(word_data) ==
    IF word_data = <<>> THEN <<>>
    ELSE IF Len(word_data) = 1 THEN Head(word_data).text
    ELSE Head(word_data).text \o <<" ">> \o JoinTexts(Tail(word_data))

\* mutant: relationships is dropped even when other keys remain
PopChildDropsAll(rel) == NoRel

PopChild(rel) ==
    LET ks == rel.keys \ {"child"}
    IN IF ks = {} THEN NoRel
       ELSE [has |-> TRUE, keys |-> ks, child |-> <<>>]

\* mutant: the set is assigned, not updated
UpdateRemoveOverwrite(ids, child_ids) == Range(child_ids)

\* mutant: only the first parent's children are recorded
UpdateRemoveOnce(ids, child_ids) ==
    IF ids = {} THEN Range(child_ids) ELSE ids

UpdateRemove(ids, child_ids) == ids \cup Range(child_ids)

FilterRemoved(anns, ids) ==
    IF ids # {}
    THEN SelectSeq(anns, LAMBDA a : a.annotation_id \notin ids)
    ELSE anns

get_page_bbox(d) ==
    IF d.bbox.has
    THEN [ulx |-> d.bbox.ulx, uly |-> d.bbox.uly,
          lrx |-> d.bbox.lrx, lry |-> d.bbox.lry]
    ELSE [ulx |-> 0, uly |-> 0,
          lrx |-> DefaultPageSize, lry |-> DefaultPageSize]

PageW(page_bbox) == Max(1, page_bbox.lrx - page_bbox.ulx)

PageH(page_bbox) == Max(1, page_bbox.lry - page_bbox.uly)

to_absolute_bbox(bbox, page_bbox) ==
    IF bbox.absolute_coords
    THEN [ulx |-> bbox.ulx, uly |-> bbox.uly,
          lrx |-> bbox.lrx, lry |-> bbox.lry]
    ELSE [ulx |-> (bbox.ulx * PageW(page_bbox)) \div NormDen,
          uly |-> (bbox.uly * PageH(page_bbox)) \div NormDen,
          lrx |-> (bbox.lrx * PageW(page_bbox)) \div NormDen,
          lry |-> (bbox.lry * PageH(page_bbox)) \div NormDen]

MakeItem(ann, page_bbox) ==
    LET absb == to_absolute_bbox(ann.bounding_box, page_bbox)
    IN [ann |-> ann, abs |-> absb,
        cx |-> [num |-> absb.ulx + absb.lrx, den |-> 2],
        yt |-> absb.uly]

ColumnThreshold(page_w) ==
    Max((ThresholdPct * page_w) \div PctDen, ThresholdFloor)

CxLess(a, b) == FracLess(a.cx, b.cx)

\* mutant: the items are not sorted by x-centre
SortItemsSkipped(its) == its

SortItems(its) ==
    StableSort(its, {q \in Pairs(its) : CxLess(its[q[1]], its[q[2]])})

Center(members) == [num |-> SumNum(members), den |-> 2 * Len(members)]

\* mutant: strict comparison
WithinStrict(cx, center, threshold) ==
    Abs(cx.num * center.den - center.num * cx.den)
        < threshold * cx.den * center.den

\* abs(it["cx"] - col["center"]) <= column_threshold
Within(cx, center, threshold) ==
    Abs(cx.num * center.den - center.num * cx.den)
        <= threshold * cx.den * center.den

\* the first column, in list order, that takes the item; 0 when none does
FirstFit(it, cols, threshold) ==
    LET fits == {j \in 1..Len(cols) : Within(it.cx, cols[j].center, threshold)}
    IN IF fits = {} THEN 0
       ELSE CHOOSE j \in fits : \A m \in fits : j <= m

\* mutant: an item that fits a column is not appended to it
PlaceLosesMember(it, cols, threshold) ==
    IF FirstFit(it, cols, threshold) = 0
    THEN Append(cols, [center |-> it.cx, members |-> <<it>>])
    ELSE cols

Place(it, cols, threshold) ==
    LET j == FirstFit(it, cols, threshold)
    IN IF j = 0
       THEN Append(cols, [center |-> it.cx, members |-> <<it>>])
       ELSE [cols EXCEPT ![j] =
                LET ms == Append(cols[j].members, it)
                IN [center |-> Center(ms), members |-> ms]]

CenterLess(a, b) == FracLess(a.center, b.center)

SortColumns(cols) ==
    StableSort(cols, {q \in Pairs(cols) : CenterLess(cols[q[1]], cols[q[2]])})

\* mutant: the key is (ulx, yt)
MemberLessXFirst(a, b) ==
    \/ a.abs.ulx < b.abs.ulx
    \/ (a.abs.ulx = b.abs.ulx /\ a.yt < b.yt)

MemberLess(a, b) ==
    \/ a.yt < b.yt
    \/ (a.yt = b.yt /\ a.abs.ulx < b.abs.ulx)

\* mutant: an unstable sort, equal keys come out reversed
SortMembersTiesReversed(members) ==
    LET rev == [j \in 1..Len(members) |-> members[Len(members) + 1 - j]]
    IN StableSort(rev, {q \in Pairs(rev) : MemberLess(rev[q[1]], rev[q[2]])})

SortMembers(members) ==
    StableSort(members,
               {q \in Pairs(members) :
                   MemberLess(members[q[1]], members[q[2]])})

Ordered(cols) ==
    LET anns == Flatten([j \in 1..Len(cols) |-> cols[j].members])
    IN [j \in 1..Len(anns) |-> anns[j].ann]

\* ------------------------------------------------------------ the inputs
ParentContent == Content("text", <<>>, FALSE, <<>>)

RankedWord(ch, r) ==
    Content("word", <<SubValue("characters", <<ch>>), SubRank(r)>>,
            FALSE, <<>>)

WordA == RankedWord("a", 1)

WordB == RankedWord("b", 1)

WordZ == RankedWord("z", Sentinel + 1)

WordU == Content("word", <<SubValue("characters", <<"u">>)>>, FALSE, <<>>)

WordV == Content("word", <<>>, TRUE, <<"v">>)

WordEmpty ==
    Content("word", <<SubValue("characters", <<>>), SubRank(1)>>, FALSE, <<>>)

Block ==
    Content("text", <<SubValue("characters", <<"t">>), SubRank(1)>>,
            FALSE, <<>>)

ChildContents == {WordA, WordB, WordZ, WordU, WordV, WordEmpty, Block}

SeqsUpTo(S, n) == UNION {[1..m -> S] : m \in 0..n}

Missing == [resolved |-> FALSE, content |-> ParentContent]

\* an entry of the child list: an annotation of the page with one of the
\* contents, or an id that is on no annotation
Entries == {[resolved |-> TRUE, content |-> c] : c \in ChildContents}
              \cup {Missing}

\* the parent (id 1) with the child list es (ids 2..), whose annotations
\* stand before it in the reverse of the child-list order, and a word
\* that nobody refers to after it; with twice, the first id is listed again
FlatPage(es, other, twice) ==
    LET m == Len(es)
        ids == [j \in 1..m |-> j + 1]
        child_ids == IF twice THEN Append(ids, ids[1]) ELSE ids
        kids == [j \in 1..m |->
                   Ann(m + 2 - j, es[m + 1 - j].content, NoRel, NoBox)]
        present == SelectSeq(kids, LAMBDA a : es[a.annotation_id - 1].resolved)
    IN [bbox |-> NoPageBox,
        annotations |->
           present \o <<Ann(1, ParentContent, ChildRel(child_ids, other), NoBox),
                        Ann(m + 2, WordA, NoRel, NoBox)>>]

FlatPages ==
    {FlatPage(es, other, FALSE) :
        es \in SeqsUpTo(Entries, MaxChild), other \in BOOLEAN}
    \cup
    UNION {{FlatPage(es, other, TRUE) :
               es \in [1..m -> Entries], other \in BOOLEAN} :
           m \in 1..(MaxChild - 1)}

NestContent(j) == IF j % 2 = 1 THEN Block ELSE WordA

NestBox(j, n) == AbsBox(200 * (n - j), 0, 200 * (n - j) + 100, 50)

NestRels(n) == {NoRel} \cup {ChildRel(<<c>>, FALSE) : c \in 1..(n + 1)}

\* every annotation may name one child: chains, cycles, self-reference,
\* parents that are children themselves
NestedPages ==
    UNION {
      {[bbox |-> NoPageBox,
        annotations |->
          [j \in 1..n |-> Ann(j, NestContent(j), rs[j], NestBox(j, n))]] :
         rs \in [1..n -> NestRels(n)]} :
      n \in 1..MaxNest}

Boxes ==
    {AbsBox(0, 0, 0, 5), AbsBox(0, 0, 1, 5), AbsBox(0, 10, 1, 15),
     AbsBox(80, 0, 80, 5), AbsBox(80, 10, 81, 15), AbsBox(160, 0, 162, 5),
     NormBox(2, 0, 4, 2)}

PageBoxes == {NoPageBox, PageBox(1006), PageBox(500)}

\* annotations without children, placed anywhere among Boxes
LayoutPages ==
    UNION {
      {[bbox |-> pb,
        annotations |->
          [j \in 1..n |-> Ann(j, ParentContent, NoRel, bs[j])]] :
         pb \in PageBoxes, bs \in [1..n -> Boxes]} :
      n \in 1..MaxBoxes}

Pages == FlatPages \cup NestedPages \cup LayoutPages

\* ----------------------------------------------------------- the actions
Init ==
    /\ page \in Pages
    /\ data = page
    /\ pc = "start"
    /\ annotation_map = <<>>
    /\ child_ids_to_remove = {}
    /\ processed_count = 0
    /\ i = 1
    /\ items = <<>>
    /\ column_threshold = 0
    /\ columns = <<>>
    /\ k = 1
    /\ returned = <<>>

\* lines 19-24
Index ==
    /\ pc = "start"
    /\ annotation_map' = BuildIndex(data.annotations)
    /\ processed_count' = 0
    /\ child_ids_to_remove' = {}
    /\ i' = 1
    /\ pc' = IF data.annotations = <<>> THEN "remove" ELSE "aggregate"
    /\ UNCHANGED <<page, data, items, column_threshold, columns, k, returned>>

\* lines 26-56, one iteration of the loop
Aggregate ==
    /\ pc = "aggregate"
    /\ LET annotation == data.annotations[i]
           relationships == annotation.relationships
           child_ids == relationships.child
           word_data == WordData(child_ids, data.annotations, annotation_map)
       IN IF relationships.has /\ "child" \in relationships.keys
          THEN /\ child_ids_to_remove' =
                     UpdateRemove(child_ids_to_remove, child_ids)
               /\ IF word_data # <<>>
                  THEN /\ data' = [data EXCEPT !.annotations[i] =
                              [annotation EXCEPT
                                 !.hasText = TRUE,
                                 !.text = JoinTexts(SortWordData(word_data)),
                                 !.relationships = PopChild(relationships)]]
                       /\ processed_count' = processed_count + 1
                  ELSE UNCHANGED <<data, processed_count>>
          ELSE UNCHANGED <<data, processed_count, child_ids_to_remove>>
    /\ i' = i + 1
    /\ pc' = IF i = Len(data.annotations) THEN "remove" ELSE "aggregate"
    /\ UNCHANGED <<page, annotation_map, items, column_threshold, columns, k,
                   returned>>

\* lines 58-63
RemoveChildren ==
    /\ pc = "remove"
    /\ data' = [data EXCEPT !.annotations =
                   FilterRemoved(data.annotations, child_ids_to_remove)]
    /\ pc' = "order"
    /\ UNCHANGED <<page, annotation_map, child_ids_to_remove, processed_count,
                   i, items, column_threshold, columns, k, returned>>

\* lines 95-114
BuildItems ==
    /\ pc = "order"
    /\ LET page_bbox == get_page_bbox(data)
       IN /\ items' = SortItems([j \in 1..Len(data.annotations) |->
                          MakeItem(data.annotations[j], page_bbox)])
          /\ column_threshold' = ColumnThreshold(PageW(page_bbox))
    /\ columns' = <<>>
    /\ k' = 1
    /\ pc' = IF data.annotations = <<>> THEN "finish" ELSE "cluster"
    /\ UNCHANGED <<page, data, annotation_map, child_ids_to_remove,
                   processed_count, i, returned>>

\* lines 115-125, one iteration of the loop
PlaceItem ==
    /\ pc = "cluster"
    /\ columns' = Place(items[k], columns, column_threshold)
    /\ k' = k + 1
    /\ pc' = IF k = Len(items) THEN "finish" ELSE "cluster"
    /\ UNCHANGED <<page, data, annotation_map, child_ids_to_remove,
                   processed_count, i, items, column_threshold, returned>>

\* lines 127-139
FinishOrder ==
    /\ pc = "finish"
    /\ LET sorted == SortColumns(columns)
       IN columns' = [j \in 1..Len(sorted) |->
                        [center |-> sorted[j].center,
                         members |-> SortMembers(sorted[j].members)]]
    /\ data' = [data EXCEPT !.annotations = Ordered(columns')]
    /\ returned' = Append(returned, data')
    /\ pc' = "done"
    /\ UNCHANGED <<page, annotation_map, child_ids_to_remove, processed_count,
                   i, items, column_threshold, k>>

\* the caller hands the returned page to simplify_annotations_data again
Resubmit ==
    /\ pc = "done"
    /\ Len(returned) < MaxRuns
    /\ page' = data
    /\ pc' = "start"
    /\ annotation_map' = <<>>
    /\ child_ids_to_remove' = {}
    /\ processed_count' = 0
    /\ i' = 1
    /\ items' = <<>>
    /\ column_threshold' = 0
    /\ columns' = <<>>
    /\ k' = 1
    /\ UNCHANGED <<data, returned>>

Next ==
    \/ Index
    \/ Aggregate
    \/ RemoveChildren
    \/ BuildItems
    \/ PlaceItem
    \/ FinishOrder
    \/ Resubmit

Spec == Init /\ [][Next]_vars

\* ------------------------------------------- vocabulary of the properties
Done == pc = "done"

AfterLoop == pc \in {"remove", "order", "cluster", "finish", "done"}

Ids(anns) == {anns[j].annotation_id : j \in 1..Len(anns)}

InIds == Ids(page.annotations)

OutIds == Ids(data.annotations)

InAnn(id) ==
    page.annotations[CHOOSE j \in 1..Len(page.annotations) :
                        page.annotations[j].annotation_id = id]

OutAnn(id) ==
    data.annotations[CHOOSE j \in 1..Len(data.annotations) :
                        data.annotations[j].annotation_id = id]

OutPos(id) ==
    CHOOSE j \in 1..Len(data.annotations) :
        data.annotations[j].annotation_id = id

HasChildKey(a) == a.relationships.has /\ "child" \in a.relationships.keys

ChildSet(a) == IF HasChildKey(a) THEN Range(a.relationships.child) ELSE {}

\* the ids that occur in the child list of some annotation of the input
Referenced == UNION {ChildSet(page.annotations[j]) : j \in 1..Len(page.annotations)}

TopLevel(id) == id \notin Referenced

\* the positions of P's child list that hold a resolved word with a text
Qualifying(P) ==
    {j \in 1..Len(P.relationships.child) :
        LET c == P.relationships.child[j]
        IN /\ c \in InIds
           /\ InAnn(c).category_name = "word"
           /\ extract_word_text(InAnn(c)) # <<>>}

ChildText(P, j) == extract_word_text(InAnn(P.relationships.child[j]))

ChildRank(P, j) == extract_reading_order(InAnn(P.relationships.child[j]))

HasOwnRank(a) ==
    \E j \in 1..Len(a.sub_categories) :
        a.sub_categories[j].name = "reading_order" /\ a.sub_categories[j].hasCid

RECURSIVE JoinWith(_, _)
JoinWith(texts, sep) ==
    IF texts = <<>> THEN <<>>
    ELSE IF Len(texts) = 1 THEN texts[1]
    ELSE texts[1] \o sep \o JoinWith(Tail(texts), sep)

\* the orders of the qualifying positions that ascend by rank and keep the
\* child-list order among equal ranks
RankOrders(P) ==
    LET Q == Qualifying(P)
    IN {f \in [1..Cardinality(Q) -> Q] :
          \A a, b \in 1..Cardinality(Q) :
             a < b => \/ ChildRank(P, f[a]) < ChildRank(P, f[b])
                      \/ /\ ChildRank(P, f[a]) = ChildRank(P, f[b])
                         /\ f[a] < f[b]}

OccursAt(text, t, x) ==
    /\ x + Len(t) - 1 <= Len(text)
    /\ SubSeq(text, x, x + Len(t) - 1) = t

\* C1: after the call no annotation of the output carries an id that
\* occurs in the non-empty child list of an annotation of the input,
\* whether or not the child resolved, was a word or gave text, and also
\* when the parent itself is removed.
C1_RemovalComplete ==
    Done =>
      \A p \in 1..Len(page.annotations) :
         LET P == page.annotations[p]
         IN (HasChildKey(P) /\ P.relationships.child # <<>>) =>
               \A c \in Range(P.relationships.child) : c \notin OutIds

\* a removed parent whose resolved child gave no text is removed too
C1_Witness ==
    /\ Done
    /\ Len(returned) = 1
    /\ \E p \in 1..Len(page.annotations) :
         LET P == page.annotations[p]
         IN /\ HasChildKey(P)
            /\ P.annotation_id \in Referenced
            /\ \E c \in ChildSet(P) :
                  /\ c \in InIds
                  /\ c # P.annotation_id
                  /\ InAnn(c).category_name # "word"

\* C2: the call applied to its own output returns the same annotation
\* collection: the same annotations in the same order with the same
\* fields.
C2_Idempotent ==
    \A r \in 2..Len(returned) :
       returned[r].annotations = returned[r - 1].annotations

\* a second call on a page of two or more annotations with equal centres
\* and sort keys, one of which kept a child list that no longer resolves
C2_Witness ==
    /\ Done
    /\ Len(returned) = 2
    /\ Len(returned[1].annotations) >= 2
    /\ \E a \in Range(returned[1].annotations) :
          /\ HasChildKey(a)
          /\ a.relationships.child # <<>>
    /\ \A a, b \in Range(returned[1].annotations) :
          a.bounding_box = b.bounding_box

\* C3: the text of a parent, one of whose resolved word children has a
\* non-empty text, is the texts of exactly those children, ascending by
\* rank, equal ranks in child-list order, joined by a single space.
C3_TextMerge ==
    AfterLoop =>
      \A p \in 1..Len(page.annotations) :
         LET P == page.annotations[p]
         IN (HasChildKey(P) /\ Qualifying(P) # {}) =>
              \A q \in 1..Len(data.annotations) :
                 data.annotations[q].annotation_id = P.annotation_id =>
                    /\ data.annotations[q].hasText
                    /\ \E f \in RankOrders(P) :
                          data.annotations[q].text =
                             JoinWith([a \in 1..Cardinality(Qualifying(P)) |->
                                          ChildText(P, f[a])], <<" ">>)

\* a surviving parent whose two word children stand in descending rank
\* order in its child list
C3_Witness ==
    /\ Done
    /\ Len(returned) = 1
    /\ \E p \in 1..Len(page.annotations) :
         LET P == page.annotations[p]
         IN /\ HasChildKey(P)
            /\ P.annotation_id \in OutIds
            /\ \E a, b \in Qualifying(P) :
                  a < b /\ ChildRank(P, a) > ChildRank(P, b)

\* C4: in a parent's text the text of a word child without a rank of its
\* own comes after the text of every word child that has one, for every
\* position in the child list and every rank value.
C4_UnrankedLast ==
    AfterLoop =>
      \A p \in 1..Len(page.annotations) :
         LET P == page.annotations[p]
         IN HasChildKey(P) =>
              \A u, r \in Qualifying(P) :
                 (/\ ~HasOwnRank(InAnn(P.relationships.child[u]))
                  /\ HasOwnRank(InAnn(P.relationships.child[r]))) =>
                    \A q \in 1..Len(data.annotations) :
                       data.annotations[q].annotation_id = P.annotation_id =>
                          \A x, y \in 1..Len(data.annotations[q].text) :
                             (/\ OccursAt(data.annotations[q].text,
                                          ChildText(P, u), x)
                              /\ OccursAt(data.annotations[q].text,
                                          ChildText(P, r), y)) => y < x

\* ------------------------------------------------ vocabulary of the layout
RECURSIVE SumSeq(_)
SumSeq(s) == IF s = <<>> THEN 0 ELSE Head(s) + SumSeq(Tail(s))

AbsOf(a) == to_absolute_bbox(a.bounding_box, get_page_bbox(data))

\* the column of the annotation with this id
ColOf(id) ==
    CHOOSE j \in 1..Len(columns) :
        \E m \in 1..Len(columns[j].members) :
            columns[j].members[m].ann.annotation_id = id

\* the mean of the x-centres of the members of column j
MeanCx(j) ==
    [num |-> SumSeq([m \in 1..Len(columns[j].members) |->
                        AbsOf(columns[j].members[m].ann).ulx
                        + AbsOf(columns[j].members[m].ann).lrx]),
     den |-> 2 * Len(columns[j].members)]

KeyLess(A, B) ==
    \/ AbsOf(A).uly < AbsOf(B).uly
    \/ (AbsOf(A).uly = AbsOf(B).uly /\ AbsOf(A).ulx < AbsOf(B).ulx)

\* C5: in the returned collection, of two annotations of different columns
\* the one of the column with the smaller final centre comes first and the
\* members of a column are contiguous; of two annotations of one column the
\* one with the smaller (absolute uly, absolute ulx) comes first.
C5_ReadingOrder ==
    Done =>
      \A a, b \in 1..Len(data.annotations) :
         LET A == data.annotations[a]
             B == data.annotations[b]
             ca == ColOf(A.annotation_id)
             cb == ColOf(B.annotation_id)
         IN /\ (ca # cb /\ FracLess(MeanCx(ca), MeanCx(cb))) => a < b
            /\ (ca # cb) => (FracLess(MeanCx(ca), MeanCx(cb))
                             \/ FracLess(MeanCx(cb), MeanCx(ca)))
            /\ (ca = cb /\ a < b) =>
                  \A c \in a..b : ColOf(data.annotations[c].annotation_id) = ca
            /\ (ca = cb /\ KeyLess(A, B)) => a < b

\* two columns, one of which holds two annotations whose order by x-centre
\* is the reverse of their order by (uly, ulx)
C5_Witness ==
    /\ Done
    /\ Len(returned) = 1
    /\ Len(columns) >= 2
    /\ \E a, b \in 1..Len(data.annotations) :
         LET A == data.annotations[a]
             B == data.annotations[b]
         IN /\ ColOf(A.annotation_id) = ColOf(B.annotation_id)
            /\ KeyLess(A, B)
            /\ AbsOf(B).ulx + AbsOf(B).lrx < AbsOf(A).ulx + AbsOf(A).lrx

\* C6: the returned collection is a permutation of exactly the input
\* annotations whose id is in no child list: none dropped, none twice,
\* none of the consumed ones back.
C6_Permutation ==
    Done =>
      /\ Len(data.annotations) = Cardinality(OutIds)
      /\ OutIds = InIds \ Referenced
      /\ \A id \in OutIds :
            /\ OutAnn(id).category_name = InAnn(id).category_name
            /\ OutAnn(id).sub_categories = InAnn(id).sub_categories
            /\ OutAnn(id).bounding_box = InAnn(id).bounding_box
            /\ OutAnn(id).hasValue = InAnn(id).hasValue
            /\ OutAnn(id).value = InAnn(id).value

\* a child was removed and two survivors changed places
C6_Witness ==
    /\ Done
    /\ Len(returned) = 1
    /\ Referenced \cap InIds # {}
    /\ \E a, b \in 1..Len(page.annotations) :
          /\ a < b
          /\ page.annotations[a].annotation_id \in OutIds
          /\ page.annotations[b].annotation_id \in OutIds
          /\ OutPos(page.annotations[b].annotation_id)
                < OutPos(page.annotations[a].annotation_id)

\* G is listed only in the child list of C, and C is a child of the
\* top-level P; P, C and G are all in the collection
Grandchild(P, C, G) ==
    /\ P # C /\ C # G /\ P # G
    /\ TopLevel(P.annotation_id)
    /\ C.annotation_id \in ChildSet(P)
    /\ G.annotation_id \in ChildSet(C)
    /\ \A j \in 1..Len(page.annotations) :
          G.annotation_id \in ChildSet(page.annotations[j]) =>
             page.annotations[j] = C

\* C7 as stated: removal is shallow, a grandchild G stays in the output.
C7_GrandchildKept ==
    Done =>
      \A P, C, G \in Range(page.annotations) :
         Grandchild(P, C, G) => G.annotation_id \in OutIds

\* C7 as amended: the child list of every annotation of the collection is
\* used, top-level or not, so a grandchild G is removed from the output;
\* an annotation that is in no child list of the collection is kept.
C7_GrandchildRemoved ==
    Done =>
      /\ \A P, C, G \in Range(page.annotations) :
            Grandchild(P, C, G) => G.annotation_id \notin OutIds
      /\ \A id \in InIds : id \notin OutIds => id \in Referenced

C7_Witness ==
    /\ Done
    /\ Len(returned) = 1
    /\ \E P, C, G \in Range(page.annotations) :
          /\ Grandchild(P, C, G)
          /\ P.annotation_id \in OutIds

\* C8: for a surviving annotation with a child key, the text is set and
\* the child key removed exactly when a resolved word child gave a text;
\* then the other relation keys stay and relationships is dropped exactly
\* when it became empty; otherwise the text stays unset and the child list
\* keeps its ids, whose annotations are removed.
C8_ParentFields ==
    Done =>
      \A p \in 1..Len(page.annotations) :
         LET P == page.annotations[p]
             success == Qualifying(P) # {}
         IN (HasChildKey(P) /\ P.annotation_id \in OutIds) =>
            LET O == OutAnn(P.annotation_id)
            IN /\ O.hasText <=> success
               /\ ~HasChildKey(O) <=> success
               /\ success =>
                    /\ O.relationships.keys = P.relationships.keys \ {"child"}
                    /\ O.relationships.has <=> O.relationships.keys # {}
               /\ ~success =>
                    /\ O.text = <<>>
                    /\ O.relationships = P.relationships
                    /\ \A c \in Range(P.relationships.child) : c \notin OutIds

\* a surviving parent with a second relation key got its text
C8_Witness ==
    /\ Done
    /\ Len(returned) = 1
    /\ \E p \in 1..Len(page.annotations) :
         LET P == page.annotations[p]
         IN /\ HasChildKey(P)
            /\ "layout_link" \in P.relationships.keys
            /\ Qualifying(P) # {}
            /\ P.annotation_id \in OutIds
            /\ OutAnn(P.annotation_id).relationships.has

\* |cx - c| <= tnum / tden
WithinRatio(cx, c, tnum, tden) ==
    Abs(cx.num * c.den - c.num * cx.den) * tden <= tnum * cx.den * c.den

ClaimPageW ==
    IF data.bbox.has THEN Max(1, data.bbox.lrx - data.bbox.ulx)
    ELSE DefaultPageSize

\* one step of the walk with threshold tnum / tden: the item joins the first
\* column whose centre is within the threshold, whose centre becomes the mean
\* of its members, and starts a new column exactly when there is none
FirstFitStep(tnum, tden) ==
    pc = "cluster" =>
      LET it == items[k]
          fits == {j \in 1..Len(columns) :
                      WithinRatio(it.cx, columns[j].center, tnum, tden)}
      IN IF fits = {}
         THEN columns' = Append(columns, [center |-> it.cx, members |-> <<it>>])
         ELSE LET j == CHOOSE f \in fits : \A m \in fits : f <= m
              IN /\ Len(columns') = Len(columns)
                 /\ columns'[j].members = Append(columns[j].members, it)
                 /\ columns'[j].center.num * 2 * Len(columns'[j].members)
                       = SumNum(columns'[j].members) * columns'[j].center.den
                 /\ \A m \in 1..Len(columns) : m # j => columns'[m] = columns[m]

\* C9 as stated: the threshold is T = max(0.08 * page_width, 60).
C9_RealThreshold ==
    [][FirstFitStep(Max(ThresholdPct * ClaimPageW, ThresholdFloor * PctDen),
                    PctDen)]_vars

\* C9 as amended: the threshold is T = max(floor(0.08 * page_width), 60),
\* the 8% of the width truncated to an integer.
C9_TruncatedThreshold ==
    [][FirstFitStep(Max((ThresholdPct * ClaimPageW) \div PctDen,
                        ThresholdFloor), 1)]_vars

\* on a page whose 8% is not an integer, the item placed last started a
\* column although the centre of the column before it is within 8% of the
\* width
C9_Witness ==
    /\ pc \in {"cluster", "finish"}
    /\ (ThresholdPct * ClaimPageW) % PctDen # 0
    /\ Len(columns) >= 2
    /\ columns[Len(columns)].members = <<items[k - 1]>>
    /\ WithinRatio(items[k - 1].cx, columns[Len(columns) - 1].center,
                   Max(ThresholdPct * ClaimPageW, ThresholdFloor * PctDen),
                   PctDen)

\* C10: the columns, in creation order, are consecutive runs of the
\* cx-sorted items (an item only ever joins the newest column), their
\* centres increase strictly, and sorting them by centre changes nothing.
C10_ColumnsAreRuns ==
    /\ pc \in {"cluster", "finish"} =>
         /\ Flatten([j \in 1..Len(columns) |-> columns[j].members])
               = SubSeq(items, 1, k - 1)
         /\ \A a, b \in 1..Len(columns) :
               a < b => FracLess(columns[a].center, columns[b].center)
    /\ pc = "finish" => SortColumns(columns) = columns

\* the walk ended with two or more columns, one of them with two members
C10_Witness ==
    /\ pc = "finish"
    /\ Len(columns) >= 2
    /\ \E j \in 1..Len(columns) : Len(columns[j].members) >= 2

====
